---- MODULE Spec2Model ----
(***************************************************************************)
(* Model of lib/agents/supervisor.ts: the three triage classifiers         *)
(* supervisorAgent (classifyIntent), shouldAskFollowUp and extractSeverity,*)
(* each of which sends one prompt to the completion service through        *)
(* retryWithBackoff, validates the response text and, when the call        *)
(* fails, substitutes a keyword fallback.                                  *)
(*                                                                         *)
(* Text is modelled as TLA+ strings, read character by character with      *)
(* SubSeq, so that toLowerCase, trim and includes are computed, not        *)
(* assumed.                                                                *)
(***************************************************************************)
EXTENDS Integers, Sequences, FiniteSets, TLC

VARIABLES
    model,        \* the module-level client every call sends its prompt through
    pc,           \* position of the call: idle, awaiting, backoff, done
    fn,           \* the function that was called
    state,        \* the ChatState handed to the classifier
    prompt,       \* the prompt the classifier built
    maxRetries,   \* retryWithBackoff's second argument
    baseDelay,    \* retryWithBackoff's third argument, in ms
    attempt,      \* retryWithBackoff's count of failed attempts so far
    failures,     \* the errors of the failed attempts, in order
    invocations,  \* number of invocations of the operation in this call
    delays,       \* the backoff delays waited so far, in ms, in order
    response,     \* the service response retryWithBackoff returned, if any
    caught,       \* the error that reached the classifier's catch, if any
    logged,       \* what the classifier wrote with console.error
    outcome,      \* how the call ended: pending, returned, raised
    result        \* the value returned (or the error raised)

vars == <<model, pc, fn, state, prompt, maxRetries, baseDelay, attempt,
          failures, invocations, delays, response, caught, logged, outcome,
          result>>

----------------------------------------------------------------------------
(* Strings: the JavaScript string methods the classifiers use.              *)

UpperLetters == "ABCDEFGHIJKLMNOPQRSTUVWXYZ"
LowerLetters == "abcdefghijklmnopqrstuvwxyz"

CharAt(s, i) == SubSeq(s, i, i)

\* One character of String.prototype.toLowerCase: A-Z map to a-z, every
\* other character of the modelled alphabet is left alone.
LowerChar(c) ==
    IF \E i \in 1..Len(UpperLetters) : CharAt(UpperLetters, i) = c
    THEN CharAt(LowerLetters, CHOOSE i \in 1..Len(UpperLetters) : CharAt(UpperLetters, i) = c)
    ELSE c

RECURSIVE toLowerCase(_)
toLowerCase(s) ==
    IF Len(s) = 0 THEN ""
    ELSE LowerChar(CharAt(s, 1)) \o toLowerCase(SubSeq(s, 2, Len(s)))

\* The white space String.prototype.trim removes (of the modelled alphabet).
IsWhiteSpace(c) == c \in {" ", "\n", "\t", "\r"}

RECURSIVE trimStart(_)
trimStart(s) ==
    IF Len(s) > 0 /\ IsWhiteSpace(CharAt(s, 1))
    THEN trimStart(SubSeq(s, 2, Len(s)))
    ELSE s

RECURSIVE trimEnd(_)
trimEnd(s) ==
    IF Len(s) > 0 /\ IsWhiteSpace(CharAt(s, Len(s)))
    THEN trimEnd(SubSeq(s, 1, Len(s) - 1))
    ELSE s

trim(s) == trimEnd(trimStart(s))

\* String.prototype.includes: k occurs in s as a contiguous substring.
includes(s, k) ==
    \E i \in 1..(Len(s) - Len(k) + 1) : SubSeq(s, i, i + Len(k) - 1) = k

\* Array.prototype.includes on an array of strings: strict equality.
arrayIncludes(arr, x) == \E i \in 1..Len(arr) : arr[i] = x

\* Array.prototype.some(k => query.includes(k)).
someIncluded(keywords, query) ==
    \E i \in 1..Len(keywords) : includes(query, keywords[i])

\* Array.prototype.slice(-n): the last n elements (all of them if fewer).
sliceLast(arr, n) ==
    IF Len(arr) <= n THEN arr ELSE SubSeq(arr, Len(arr) - n + 1, Len(arr))
----------------------------------------------------------------------------
(* Bounds and the inputs the caller and the service are drawn from.         *)

\* Longest chat_history handed to a classifier: longer than both slices the
\* prompts take of it.
MaxHistory == 6

\* chat_history: prior exchange records, opaque here, numbered in order;
\* a new conversation's empty history and a long one.
Histories == { << >>, [i \in 1..MaxHistory |-> i] }

Queries ==
    { "", "Severe chest pain", "What did we discuss last time?",
      "I have a headache", "What is diabetes?", "Show me my conversation history",
      "Past stroke summary", "Hello, I think I had a heart attack",
      "Trouble breathing", "HEY", "Explain my previous STROKE",
      "Can I take ibuprofen?" }

Answers == { "", "Rest and drink fluids." }

ChatStates ==
    [ query : Queries, chat_history : Histories, answer : Answers ]

Classifiers == { "supervisorAgent", "shouldAskFollowUp", "extractSeverity" }

\* Errors a service attempt can reject with.
ServiceErrors == { "network_error", "rate_limited" }

RECURSIVE toUpperCase(_)
toUpperCase(s) ==
    IF Len(s) = 0 THEN ""
    ELSE LET c == CharAt(s, 1)
             u == IF \E i \in 1..Len(LowerLetters) : CharAt(LowerLetters, i) = c
                  THEN CharAt(UpperLetters, CHOOSE i \in 1..Len(LowerLetters) : CharAt(LowerLetters, i) = c)
                  ELSE c
         IN  u \o toUpperCase(SubSeq(s, 2, Len(s)))

capitalize(s) == toUpperCase(CharAt(s, 1)) \o SubSeq(s, 2, Len(s))

\* The spellings of a word the service may answer with, and the white space
\* it may put around it.
Casings(w) == { w, toUpperCase(w), capitalize(w) }
LeadPads   == { "", " " }
TrailPads  == { "", "  \n" }
Dressed(w) == { pre \o c \o post : pre \in LeadPads, c \in Casings(w), post \in TrailPads }

IntentLabels   == { "clinical", "personal", "generic_faq", "emergency" }
SeverityLabels == { "critical", "high", "medium", "low" }

\* Raw response texts of the completion service: every dressed label, and
\* texts outside the label sets (among them yes/no answers).
RawTexts ==
    UNION { Dressed(w) : w \in IntentLabels \cup SeverityLabels }
    \cup { "", "unsure", "emergency.", "generic faq", "e m e r g e n c y",
           "yes", "Yes.", "YES", "no", "No\n", "eyes only", "y es", "maybe" }

\* What model.generateContent resolves to: a response whose text() yields
\* the raw text, or a response whose text() throws (a blocked response).
TextResponse(t) == [ kind |-> "text", text |-> t ]
BlockedResponse == [ kind |-> "blocked", text |-> "" ]
NoResponse      == [ kind |-> "none", text |-> "" ]
Responses       == { TextResponse(t) : t \in RawTexts } \cup { BlockedResponse }

NoError   == "no_error"
ReadError == "response_text_error"
NoResult  == "no_result"

----------------------------------------------------------------------------
(* How a function ends: it returns a value or raises an error; log is what  *)
(* it wrote with console.error on the way.                                  *)

Return(v, log) == [ kind |-> "returned", value |-> v, log |-> log ]
Throw(e, log)  == [ kind |-> "raised",   value |-> e, log |-> log ]

\* What the awaited retryWithBackoff call settles to.
Resolved(r) == [ kind |-> "resolved", response |-> r, error |-> NoError ]
Rejected(e) == [ kind |-> "rejected", response |-> NoResponse, error |-> e ]

----------------------------------------------------------------------------
(* supervisorAgent                                                          *)

supervisorMaxRetries == 3
supervisorBaseDelay  == 1000
supervisorHistory    == 3

supervisorPrompt(st) ==
    [ task    |-> "supervisorAgent",
      query   |-> st.query,
      context |-> sliceLast(st.chat_history, supervisorHistory),
      answer  |-> "" ]

validAgents == << "clinical", "personal", "generic_faq", "emergency" >>

\* Variant: the normalised text is returned without the membership test.
supervisorAgentValidate_unvalidated(raw) == trim(toLowerCase(raw))

\* Variant: the text is trimmed but not lower-cased before the test.
supervisorAgentValidate_caseSensitive(raw) ==
    LET text == trim(raw)
    IN  IF arrayIncludes(validAgents, text) THEN text ELSE "clinical"

\* The try block after the awaited call: normalise the text and validate it.
supervisorAgentValidate(raw) ==
    LET text == trim(toLowerCase(raw))
    IN  IF arrayIncludes(validAgents, text) THEN text ELSE "clinical"

emergencyKeywords ==
    << "chest pain", "difficulty breathing", "severe bleeding",
       "unconscious", "stroke", "heart attack" >>

\* Variant: the FAQ test looks for "what" where the code looks for "what is".
supervisorAgentFallback_whatAlone(st) ==
    LET query == toLowerCase(st.query)
    IN  IF someIncluded(emergencyKeywords, query) THEN "emergency"
        ELSE IF \/ includes(query, "history")
                \/ includes(query, "previous")
                \/ includes(query, "conversation")
                \/ includes(query, "summary")
                \/ includes(query, "past")
             THEN "personal"
        ELSE IF \/ includes(query, "hi")
                \/ includes(query, "hello")
                \/ includes(query, "hey")
                \/ includes(query, "what")
                \/ includes(query, "how does")
                \/ includes(query, "explain")
                \/ includes(query, "define")
             THEN "generic_faq"
        ELSE "clinical"

\* Variant: a query matching no keyword falls to generic_faq.
supervisorAgentFallback_defaultFaq(st) ==
    LET query == toLowerCase(st.query)
    IN  IF someIncluded(emergencyKeywords, query) THEN "emergency"
        ELSE IF \/ includes(query, "history")
                \/ includes(query, "previous")
                \/ includes(query, "conversation")
                \/ includes(query, "summary")
                \/ includes(query, "past")
             THEN "personal"
        ELSE "generic_faq"

\* Variant: the personal test comes before the emergency test.
supervisorAgentFallback_personalFirst(st) ==
    LET query == toLowerCase(st.query)
    IN  IF \/ includes(query, "history")
           \/ includes(query, "previous")
           \/ includes(query, "conversation")
           \/ includes(query, "summary")
           \/ includes(query, "past")
        THEN "personal"
        ELSE IF someIncluded(emergencyKeywords, query) THEN "emergency"
        ELSE IF \/ includes(query, "hi")
                \/ includes(query, "hello")
                \/ includes(query, "hey")
                \/ includes(query, "what is")
                \/ includes(query, "how does")
                \/ includes(query, "explain")
                \/ includes(query, "define")
             THEN "generic_faq"
        ELSE "clinical"

\* Variant: a query matching no keyword is taken for personal when the
\* conversation has a history.
supervisorAgentFallback_usesHistory(st) ==
    LET query == toLowerCase(st.query)
    IN  IF someIncluded(emergencyKeywords, query) THEN "emergency"
        ELSE IF \/ includes(query, "history")
                \/ includes(query, "previous")
                \/ includes(query, "conversation")
                \/ includes(query, "summary")
                \/ includes(query, "past")
             THEN "personal"
        ELSE IF \/ includes(query, "hi")
                \/ includes(query, "hello")
                \/ includes(query, "hey")
                \/ includes(query, "what is")
                \/ includes(query, "how does")
                \/ includes(query, "explain")
                \/ includes(query, "define")
             THEN "generic_faq"
        ELSE IF Len(st.chat_history) > 0 THEN "personal"
        ELSE "clinical"

\* The catch block: keyword matching on the lower-cased query.
supervisorAgentFallback(st) ==
    LET query == toLowerCase(st.query)
    IN  IF someIncluded(emergencyKeywords, query) THEN "emergency"
        ELSE IF \/ includes(query, "history")
                \/ includes(query, "previous")
                \/ includes(query, "conversation")
                \/ includes(query, "summary")
                \/ includes(query, "past")
             THEN "personal"
        ELSE IF \/ includes(query, "hi")
                \/ includes(query, "hello")
                \/ includes(query, "hey")
                \/ includes(query, "what is")
                \/ includes(query, "how does")
                \/ includes(query, "explain")
                \/ includes(query, "define")
             THEN "generic_faq"
        ELSE "clinical"

supervisorAgentCatch(st, error) == Return(supervisorAgentFallback(st), error)

\* Variant: a text outside the label set is thrown into the catch block.
supervisorAgent_invalidIsFailure(st, settled) ==
    IF settled.kind = "rejected" THEN supervisorAgentCatch(st, settled.error)
    ELSE IF settled.response.kind = "blocked" THEN supervisorAgentCatch(st, ReadError)
    ELSE IF arrayIncludes(validAgents, trim(toLowerCase(settled.response.text)))
         THEN Return(trim(toLowerCase(settled.response.text)), NoError)
         ELSE supervisorAgentCatch(st, "invalid_label")

\* try { await retryWithBackoff(...); text(); validate } catch { fallback }
supervisorAgent(st, settled) ==
    IF settled.kind = "rejected" THEN supervisorAgentCatch(st, settled.error)
    ELSE IF settled.response.kind = "blocked" THEN supervisorAgentCatch(st, ReadError)
    ELSE Return(supervisorAgentValidate(settled.response.text), NoError)

----------------------------------------------------------------------------
(* shouldAskFollowUp                                                        *)

followUpMaxRetries == 2
followUpBaseDelay  == 1000

followUpPrompt(st) ==
    [ task    |-> "shouldAskFollowUp",
      query   |-> st.query,
      context |-> << >>,
      answer  |-> st.answer ]

\* Variant: the lower-cased text must equal "yes".
shouldAskFollowUpParse_exact(raw) == toLowerCase(raw) = "yes"

shouldAskFollowUpParse(raw) == includes(toLowerCase(raw), "yes")

shouldAskFollowUpCatch(st, error) == Return(FALSE, error)

\* Variant: the response text is read after the try block has ended.
shouldAskFollowUp_readOutsideTry(st, settled) ==
    IF settled.kind = "rejected" THEN shouldAskFollowUpCatch(st, settled.error)
    ELSE IF settled.response.kind = "blocked" THEN Throw(ReadError, NoError)
    ELSE Return(shouldAskFollowUpParse(settled.response.text), NoError)

shouldAskFollowUp(st, settled) ==
    IF settled.kind = "rejected" THEN shouldAskFollowUpCatch(st, settled.error)
    ELSE IF settled.response.kind = "blocked" THEN shouldAskFollowUpCatch(st, ReadError)
    ELSE Return(shouldAskFollowUpParse(settled.response.text), NoError)

----------------------------------------------------------------------------
(* extractSeverity                                                          *)

severityMaxRetries == 2
severityBaseDelay  == 1000
severityHistory    == 5

severityPrompt(st) ==
    [ task    |-> "extractSeverity",
      query   |-> st.query,
      context |-> sliceLast(st.chat_history, severityHistory),
      answer  |-> "" ]

validSeverities == << "critical", "high", "medium", "low" >>

\* Variant: the normalised text is cast to the severity type unchecked.
extractSeverityValidate_unvalidated(raw) == trim(toLowerCase(raw))

extractSeverityValidate(raw) ==
    LET text == trim(toLowerCase(raw))
    IN  IF arrayIncludes(validSeverities, text) THEN text ELSE "low"

criticalKeywords == << "chest pain", "breathing", "stroke", "unconscious" >>

\* Variant: a critical keyword yields "critical".
extractSeverityFallback_critical(st) ==
    LET query == toLowerCase(st.query)
    IN  IF someIncluded(criticalKeywords, query) THEN "critical" ELSE "low"

\* Variant: the severity fallback matches the intent fallback's keywords.
extractSeverityFallback_emergencyWords(st) ==
    LET query == toLowerCase(st.query)
    IN  IF someIncluded(emergencyKeywords, query) THEN "high" ELSE "low"

extractSeverityFallback(st) ==
    LET query == toLowerCase(st.query)
    IN  IF someIncluded(criticalKeywords, query) THEN "high" ELSE "low"

extractSeverityCatch(st, error) == Return(extractSeverityFallback(st), error)

extractSeverity(st, settled) ==
    IF settled.kind = "rejected" THEN extractSeverityCatch(st, settled.error)
    ELSE IF settled.response.kind = "blocked" THEN extractSeverityCatch(st, ReadError)
    ELSE Return(extractSeverityValidate(settled.response.text), NoError)

----------------------------------------------------------------------------
(* Dispatch on the classifier that was called.                              *)

BuildPrompt(f, st) ==
    CASE f = "supervisorAgent"   -> supervisorPrompt(st)
      [] f = "shouldAskFollowUp" -> followUpPrompt(st)
      [] f = "extractSeverity"   -> severityPrompt(st)

\* Variant: every classifier is given three attempts.
MaxRetries_allThree(f) == supervisorMaxRetries

MaxRetries(f) ==
    CASE f = "supervisorAgent"   -> supervisorMaxRetries
      [] f = "shouldAskFollowUp" -> followUpMaxRetries
      [] f = "extractSeverity"   -> severityMaxRetries

BaseDelay(f) ==
    CASE f = "supervisorAgent"   -> supervisorBaseDelay
      [] f = "shouldAskFollowUp" -> followUpBaseDelay
      [] f = "extractSeverity"   -> severityBaseDelay

\* The classifier's continuation once the awaited retryWithBackoff settles.
Continue(f, st, settled) ==
    CASE f = "supervisorAgent"   -> supervisorAgent(st, settled)
      [] f = "shouldAskFollowUp" -> shouldAskFollowUp(st, settled)
      [] f = "extractSeverity"   -> extractSeverity(st, settled)

----------------------------------------------------------------------------
(* What a classifier leaves of the ChatState it was given: it reads         *)
(* state.query, state.chat_history and state.answer and assigns to none.    *)

\* Variant: the catch block lower-cases state.query in place.
ChatStateAfter_lowercasesQuery(f, st, settled) ==
    IF settled.kind = "rejected" \/ settled.response.kind = "blocked"
    THEN [ st EXCEPT !.query = toLowerCase(st.query) ]
    ELSE st

ChatStateAfter(f, st, settled) == st

----------------------------------------------------------------------------
(* retryWithBackoff(operation, maxRetries, baseDelay)                       *)

\* Most attempts a direct call of retryWithBackoff is given.
MaxAttempts == 4

\* No call is followed beyond this many invocations of its operation.
MaxInvocations == 6

\* Base delays a direct call of retryWithBackoff is given, in ms.
BaseDelays == { 1, 250, 1000 }

RECURSIVE Pow2(_)
Pow2(k) == IF k = 0 THEN 1 ELSE 2 * Pow2(k - 1)

\* Variant: the exponent is the retry's number, not one less.
BackoffDelay_exponentOffByOne(d, k) == d * Pow2(k)

\* The wait before the k-th retry (k = 1, 2, ...).
BackoffDelay(d, k) == d * Pow2(k - 1)

\* Variant: one attempt more than maxRetries is made.
AttemptsRemain_oneMore(made, n) == made <= n

\* Variant: the loop has no upper limit.
AttemptsRemain_always(made, n) == TRUE

\* After an attempt, with `made` attempts made so far: is another allowed?
AttemptsRemain(made, n) == made < n

\* Variant: a resolved attempt does not leave the loop while attempts remain.
RetryStep_noEarlyReturn(kind, made, n) ==
    IF AttemptsRemain(made, n) THEN "wait"
    ELSE IF kind = "resolved" THEN "return" ELSE "throw"

\* What retryWithBackoff does when an attempt settles: return its result,
\* wait and try again, or raise its error.
RetryStep(kind, made, n) ==
    IF kind = "resolved" THEN "return"
    ELSE IF AttemptsRemain(made, n) THEN "wait"
    ELSE "throw"

\* Variant: the error raised at the end is the first attempt's.
RaisedError_first(errors) == errors[1]

\* The error retryWithBackoff raises after its attempts: the last one.
RaisedError(errors) == errors[Len(errors)]

\* A direct caller of retryWithBackoff gets the operation's result, or the
\* raised error.
RetryEnd(settled) ==
    IF settled.kind = "rejected" THEN Throw(settled.error, NoError)
    ELSE Return(settled.response, NoError)

----------------------------------------------------------------------------
(* The state machine of one call.                                           *)

NoState  == [ query |-> "", chat_history |-> << >>, answer |-> "" ]
NoPrompt == [ task |-> "none", query |-> "", context |-> << >>, answer |-> "" ]

\* genai.getGenerativeModel({ model: ... }), built once at module load.
GenerativeModel == [ model |-> "gemini-2.5-flash-lite" ]

\* The locals of a call before it starts.
Fresh ==
    /\ pc = "idle"
    /\ fn = "none"
    /\ state = NoState
    /\ prompt = NoPrompt
    /\ maxRetries = 0
    /\ baseDelay = 0
    /\ attempt = 0
    /\ failures = << >>
    /\ invocations = 0
    /\ delays = << >>
    /\ response = NoResponse
    /\ caught = NoError
    /\ logged = NoError
    /\ outcome = "pending"
    /\ result = NoResult

Init ==
    /\ model = GenerativeModel
    /\ Fresh

\* The caller invokes classifier f on st: the prompt is built and the first
\* model.generateContent request is sent.
Call(f, st) ==
    /\ pc = "idle"
    /\ fn' = f
    /\ state' = st
    /\ prompt' = BuildPrompt(f, st)
    /\ maxRetries' = MaxRetries(f)
    /\ baseDelay' = BaseDelay(f)
    /\ invocations' = 1
    /\ pc' = "awaiting"
    /\ UNCHANGED <<model, attempt, failures, delays, response, caught, logged,
                   outcome, result>>

\* retryWithBackoff is called directly with n attempts and base delay d on
\* an operation that may fail: its first invocation is made.
CallRetry(n, d) ==
    /\ pc = "idle"
    /\ fn' = "retryWithBackoff"
    /\ maxRetries' = n
    /\ baseDelay' = d
    /\ invocations' = 1
    /\ pc' = "awaiting"
    /\ UNCHANGED <<model, state, prompt, attempt, failures, delays, response,
                   caught, logged, outcome, result>>

\* The caller's continuation runs to its end with what the awaited call
\* settled to.
Settle(settled) ==
    LET end == IF fn = "retryWithBackoff" THEN RetryEnd(settled)
               ELSE Continue(fn, state, settled)
    IN  /\ pc' = "done"
        /\ state' = ChatStateAfter(fn, state, settled)
        /\ response' = settled.response
        /\ caught' = IF settled.kind = "rejected" THEN settled.error
                     ELSE IF settled.response.kind = "blocked" THEN ReadError
                     ELSE NoError
        /\ logged' = end.log
        /\ outcome' = end.kind
        /\ result' = end.value

\* retryWithBackoff waits before the next attempt.
Wait ==
    /\ delays' = Append(delays, BackoffDelay(baseDelay, invocations))
    /\ pc' = "backoff"

\* The request in flight resolves: retryWithBackoff returns the response at
\* once and the classifier reads and validates it.
ServiceResponds(r) ==
    /\ pc = "awaiting"
    /\ IF RetryStep("resolved", invocations, maxRetries) = "return"
       THEN /\ Settle(Resolved(r))
            /\ UNCHANGED delays
       ELSE /\ Wait
            /\ UNCHANGED <<state, response, caught, logged, outcome, result>>
    /\ UNCHANGED <<model, fn, prompt, maxRetries, baseDelay, attempt, failures,
                   invocations>>

\* The request in flight rejects and attempts remain: retryWithBackoff
\* starts the wait before the next attempt.
ServiceFailsRetry(e) ==
    /\ pc = "awaiting"
    /\ RetryStep("rejected", invocations, maxRetries) = "wait"
    /\ attempt' = attempt + 1
    /\ failures' = Append(failures, e)
    /\ Wait
    /\ UNCHANGED <<model, fn, state, prompt, maxRetries, baseDelay,
                   invocations, response, caught, logged, outcome, result>>

\* The request in flight rejects on the last attempt: retryWithBackoff
\* raises that error, which the classifier's catch block absorbs.
ServiceFailsFinal(e) ==
    /\ pc = "awaiting"
    /\ RetryStep("rejected", invocations, maxRetries) = "throw"
    /\ attempt' = attempt + 1
    /\ failures' = Append(failures, e)
    /\ Settle(Rejected(RaisedError(Append(failures, e))))
    /\ UNCHANGED <<model, fn, prompt, maxRetries, baseDelay, invocations,
                   delays>>

\* Variant: the promise of the wait is never resolved.
SleepResolves_never(ms) == FALSE

\* The wait is a timer of ms milliseconds; a timer of any delay fires.
SleepResolves(ms) == ms >= 0

\* The backoff wait ends: the operation is invoked again.
BackoffElapses ==
    /\ pc = "backoff"
    /\ SleepResolves(delays[Len(delays)])
    /\ invocations < MaxInvocations
    /\ invocations' = invocations + 1
    /\ pc' = "awaiting"
    /\ UNCHANGED <<model, fn, state, prompt, maxRetries, baseDelay, attempt,
                   failures, delays, response, caught, logged, outcome,
                   result>>

\* The caller has the call's value; the call's locals are gone and the
\* next call starts afresh.
Finish ==
    /\ pc = "done"
    /\ pc' = "idle"
    /\ fn' = "none"
    /\ state' = NoState
    /\ prompt' = NoPrompt
    /\ maxRetries' = 0
    /\ baseDelay' = 0
    /\ attempt' = 0
    /\ failures' = << >>
    /\ invocations' = 0
    /\ delays' = << >>
    /\ response' = NoResponse
    /\ caught' = NoError
    /\ logged' = NoError
    /\ outcome' = "pending"
    /\ result' = NoResult
    /\ UNCHANGED model

ServiceSettles ==
    \/ \E r \in Responses : ServiceResponds(r)
    \/ \E e \in ServiceErrors : ServiceFailsRetry(e)
    \/ \E e \in ServiceErrors : ServiceFailsFinal(e)

Next ==
    \/ \E f \in Classifiers, st \in ChatStates : Call(f, st)
    \/ \E r \in Responses : ServiceResponds(r)
    \/ \E e \in ServiceErrors : ServiceFailsRetry(e)
    \/ \E e \in ServiceErrors : ServiceFailsFinal(e)
    \/ BackoffElapses
    \/ Finish

Spec == Init /\ [][Next]_vars

\* Every request to the service settles and every timer fires.
FairSpec == Spec /\ WF_vars(ServiceSettles) /\ WF_vars(BackoffElapses)

\* Direct calls of retryWithBackoff with any attempt count and base delay.
NextRetry ==
    \/ \E n \in 1..MaxAttempts, d \in BaseDelays : CallRetry(n, d)
    \/ \E r \in Responses : ServiceResponds(r)
    \/ \E e \in ServiceErrors : ServiceFailsRetry(e)
    \/ \E e \in ServiceErrors : ServiceFailsFinal(e)
    \/ BackoffElapses
    \/ Finish

RetrySpec == Init /\ [][NextRetry]_vars

----------------------------------------------------------------------------
(* Properties.                                                              *)

Done == pc = "done"

\* Every attempt of the call was rejected by the service.
AllAttemptsFailed ==
    /\ Done
    /\ response.kind = "none"
    /\ caught \in ServiceErrors
    /\ invocations = attempt

\* Some attempt resolved with a response whose text could be read.
GotText == Done /\ response.kind = "text"

\* The spec's keyword sets of the intent fallback.
EmergencyWords == { "chest pain", "difficulty breathing", "severe bleeding",
                    "unconscious", "stroke", "heart attack" }
PersonalWords  == { "history", "previous", "conversation", "summary", "past" }
FaqWords       == { "hi", "hello", "hey", "what is", "how does", "explain", "define" }

ContainsAny(q, words) == \E w \in words : includes(q, w)

\* C1: whatever the query and whatever the service does, a finished call of
\* supervisorAgent (classifyIntent) has returned one of clinical, personal,
\* generic_faq, emergency, never the raw response text.
C1_IntentAlwaysALabel ==
    (Done /\ fn = "supervisorAgent") =>
        (outcome = "returned" /\ result \in IntentLabels)

C1_Witness ==
    /\ Done /\ fn = "supervisorAgent"
    /\ response = TextResponse("e m e r g e n c y")
    /\ outcome = "returned" /\ result = "clinical"

\* C2: whatever the query and whatever the service does, a finished call of
\* extractSeverity has returned one of critical, high, medium, low.
C2_SeverityAlwaysALabel ==
    (Done /\ fn = "extractSeverity") =>
        (outcome = "returned" /\ result \in SeverityLabels)

C2_Witness ==
    /\ Done /\ fn = "extractSeverity"
    /\ response = TextResponse("emergency")
    /\ outcome = "returned" /\ result = "low"

\* C3: no call of the three classifiers ends by raising: service failures
\* and failures of reading the response are absorbed, also for the empty
\* query.
C3_NeverRaises == Done => outcome = "returned"

C3_Witness ==
    /\ Done /\ fn = "shouldAskFollowUp"
    /\ state.query = ""
    /\ response = BlockedResponse /\ caught = ReadError
    /\ outcome = "returned"

\* C4 (as stated): with every attempt failing, supervisorAgent on
\* "What did we discuss last time?" returns personal.
C4_DiscussIsPersonal ==
    (AllAttemptsFailed /\ fn = "supervisorAgent"
       /\ state.query = "What did we discuss last time?")
        => result = "personal"

\* C4 (amended): with every attempt failing, supervisorAgent on
\* "What did we discuss last time?" returns clinical, the default: the
\* lower-cased query contains no emergency, personal or FAQ keyword.
C4_DiscussIsClinical ==
    (AllAttemptsFailed /\ fn = "supervisorAgent"
       /\ state.query = "What did we discuss last time?")
        => /\ result = "clinical"
           /\ ~ContainsAny(toLowerCase(state.query),
                           EmergencyWords \cup PersonalWords \cup FaqWords)

C4_Witness ==
    /\ AllAttemptsFailed /\ fn = "supervisorAgent"
    /\ state.query = "What did we discuss last time?"
    /\ invocations = 3
    /\ result = "clinical"

\* C5: with every attempt failing, "Severe chest pain" makes supervisorAgent
\* return emergency and extractSeverity return high.
C5_ChestPain ==
    (AllAttemptsFailed /\ state.query = "Severe chest pain") =>
        /\ fn = "supervisorAgent" => result = "emergency"
        /\ fn = "extractSeverity" => result = "high"

C5_Witness ==
    /\ AllAttemptsFailed /\ state.query = "Severe chest pain"
    /\ fn = "extractSeverity" /\ result = "high"

\* C6: with every attempt failing, the lower-cased "I have a headache"
\* contains no keyword of the three fallback sets and supervisorAgent
\* returns clinical.
C6_HeadacheIsClinical ==
    (AllAttemptsFailed /\ fn = "supervisorAgent"
       /\ state.query = "I have a headache")
        => /\ ~ContainsAny(toLowerCase(state.query),
                           EmergencyWords \cup PersonalWords \cup FaqWords)
           /\ result = "clinical"

C6_Witness ==
    /\ AllAttemptsFailed /\ fn = "supervisorAgent"
    /\ state.query = "I have a headache"
    /\ Len(delays) = 2
    /\ result = "clinical"

\* C7: with every attempt failing, supervisorAgent applies the keyword sets
\* to the lower-cased query in priority order: emergency, then personal,
\* then generic_faq, then clinical.
C7_FallbackPriority ==
    (AllAttemptsFailed /\ fn = "supervisorAgent") =>
        LET q == toLowerCase(state.query)
        IN  result = IF ContainsAny(q, EmergencyWords) THEN "emergency"
                     ELSE IF ContainsAny(q, PersonalWords) THEN "personal"
                     ELSE IF ContainsAny(q, FaqWords) THEN "generic_faq"
                     ELSE "clinical"

C7_Witness ==
    /\ AllAttemptsFailed /\ fn = "supervisorAgent"
    /\ state.query = "Explain my previous STROKE"
    /\ ContainsAny(toLowerCase(state.query), EmergencyWords)
    /\ ContainsAny(toLowerCase(state.query), PersonalWords)
    /\ ContainsAny(toLowerCase(state.query), FaqWords)
    /\ result = "emergency"

\* C8: a response text that is a valid intent label up to letter case and
\* surrounding white space is accepted by supervisorAgent and returned as
\* that label; in particular "EMERGENCY  \n" gives emergency.
C8_DressedLabelAccepted ==
    (GotText /\ fn = "supervisorAgent") =>
        /\ \A l \in IntentLabels : response.text \in Dressed(l) => result = l
        /\ response.text = "EMERGENCY  \n" => result = "emergency"

C8_Witness ==
    /\ GotText /\ fn = "supervisorAgent"
    /\ response.text = "EMERGENCY  \n"
    /\ state.query = "HEY"
    /\ result = "emergency"

\* C9: a response whose normalised text is outside the label set is no
\* failure: the call ends with that response (no further invocation, no
\* further wait, nothing caught or logged) and returns clinical from
\* supervisorAgent and low from extractSeverity, whatever the query.
C9_InvalidTextIsDefault ==
    GotText =>
        LET text == trim(toLowerCase(response.text))
        IN  /\ (fn = "supervisorAgent" /\ text \notin IntentLabels) =>
                  /\ result = "clinical"
                  /\ caught = NoError /\ logged = NoError
                  /\ invocations = attempt + 1 /\ Len(delays) = attempt
            /\ (fn = "extractSeverity" /\ text \notin SeverityLabels) =>
                  /\ result = "low"
                  /\ caught = NoError /\ logged = NoError
                  /\ invocations = attempt + 1 /\ Len(delays) = attempt

C9_Witness ==
    /\ GotText /\ fn = "supervisorAgent"
    /\ response.text = "unsure"
    /\ state.query = "Severe chest pain"
    /\ invocations = 1
    /\ result = "clinical"

\* C10: shouldAskFollowUp returns true exactly when a response was received
\* and its lower-cased text contains "yes" anywhere; it returns false for
\* every other response and when every attempt failed.
C10_FollowUpIffYes ==
    (Done /\ fn = "shouldAskFollowUp") =>
        /\ outcome = "returned"
        /\ result = (GotText /\ includes(toLowerCase(response.text), "yes"))
        /\ AllAttemptsFailed => result = FALSE

C10_Witness ==
    /\ Done /\ fn = "shouldAskFollowUp"
    /\ response = TextResponse("eyes only")
    /\ result = TRUE

\* C11: with every attempt failing, extractSeverity returns high if the
\* lower-cased query contains chest pain, breathing, stroke or unconscious
\* and low otherwise; the catch block never returns critical or medium.
C11_SeverityFallback ==
    /\ (AllAttemptsFailed /\ fn = "extractSeverity") =>
          result = IF ContainsAny(toLowerCase(state.query),
                                  { "chest pain", "breathing", "stroke", "unconscious" })
                   THEN "high" ELSE "low"
    /\ (Done /\ fn = "extractSeverity" /\ caught # NoError) =>
          result \in { "high", "low" }

C11_Witness ==
    /\ AllAttemptsFailed /\ fn = "extractSeverity"
    /\ state.query = "Trouble breathing"
    /\ result = "high"

\* A direct call of retryWithBackoff whose operation failed on every
\* invocation has ended.
RetryAllFailed ==
    /\ Done /\ fn = "retryWithBackoff"
    /\ response.kind = "none"

\* C12: retryWithBackoff with n >= 1 attempts and an operation that fails
\* every time invokes it exactly n times, never more, and then raises the
\* error of the n-th attempt.
C12_ExactlyNThenLastError ==
    fn = "retryWithBackoff" =>
        /\ invocations <= maxRetries
        /\ RetryAllFailed =>
              /\ invocations = maxRetries
              /\ Len(failures) = maxRetries
              /\ outcome = "raised"
              /\ result = failures[maxRetries]

C12_Witness ==
    /\ RetryAllFailed
    /\ maxRetries = 4
    /\ invocations = 4
    /\ failures = << "rate_limited", "rate_limited", "rate_limited", "network_error" >>
    /\ outcome = "raised" /\ result = "network_error"

\* C13: with a positive base delay d the wait before the k-th retry is
\* d * 2^(k-1); the waits strictly increase; none follows the final failed
\* attempt; invocations and waits alternate one at a time.
C13_BackoffDelays ==
    fn = "retryWithBackoff" =>
        /\ \A k \in 1..Len(delays) : delays[k] = baseDelay * 2^(k - 1)
        /\ \A k \in 1..(Len(delays) - 1) : delays[k] < delays[k + 1]
        /\ Len(delays) <= maxRetries - 1
        /\ RetryAllFailed => Len(delays) = maxRetries - 1
        /\ pc = "backoff" => invocations = Len(delays)
        /\ pc \in { "awaiting", "done" } => invocations = Len(delays) + 1

C13_Witness ==
    /\ RetryAllFailed
    /\ maxRetries = 4 /\ baseDelay = 250
    /\ delays = << 250, 500, 1000 >>

\* C14: retryWithBackoff ends at the first invocation that succeeds: it
\* returns that result, every earlier invocation failed, and no invocation
\* or wait follows; failing once and then succeeding is 2 invocations.
C14_StopsAtFirstSuccess ==
    (Done /\ fn = "retryWithBackoff" /\ response.kind # "none") =>
        /\ outcome = "returned" /\ result = response
        /\ invocations = Len(failures) + 1
        /\ Len(delays) = Len(failures)
        /\ Len(failures) = 1 => invocations = 2

C14_Witness ==
    /\ Done /\ fn = "retryWithBackoff"
    /\ maxRetries = 4
    /\ failures = << "network_error" >>
    /\ response = TextResponse("yes")
    /\ invocations = 2 /\ delays = << baseDelay >>
    /\ outcome = "returned"

\* C15: a classifier call invokes the service at most 3 times
\* (supervisorAgent) or 2 times (shouldAskFollowUp, extractSeverity), with
\* base delay 1000 ms; when every attempt fails exactly that many
\* invocations are made and the call then returns, without trying again.
C15_AttemptBudget ==
    fn \in Classifiers =>
        LET budget == IF fn = "supervisorAgent" THEN 3 ELSE 2
        IN  /\ invocations <= budget
            /\ baseDelay = 1000
            /\ Len(delays) >= 1 => delays[1] = 1000
            /\ AllAttemptsFailed =>
                  /\ invocations = budget
                  /\ Len(failures) = budget
                  /\ outcome = "returned"

C15_Witness ==
    /\ AllAttemptsFailed /\ fn = "shouldAskFollowUp"
    /\ invocations = 2 /\ delays = << 1000 >>
    /\ outcome = "returned" /\ result = FALSE

\* C16 (as stated): a classifier takes its failure path only when all of
\* its allowed attempts failed; once an attempt returned a response, the
\* failure path is not taken.
C16_FallbackOnlyAfterExhaustion ==
    (Done /\ fn \in Classifiers) =>
        /\ caught # NoError => AllAttemptsFailed
        /\ response.kind # "none" => (caught = NoError /\ logged = NoError)

\* C16 (amended): a classifier takes its failure path exactly when all of
\* its allowed attempts failed or the response it received could not be
\* read (text() raised), the latter without further attempts; once a
\* response's text was read, the failure path is not taken.
C16_FallbackAfterExhaustionOrUnreadable ==
    (Done /\ fn \in Classifiers) =>
        /\ caught # NoError <=> (AllAttemptsFailed \/ response.kind = "blocked")
        /\ AllAttemptsFailed => invocations = maxRetries
        /\ response.kind = "blocked" =>
              (logged = ReadError /\ invocations = Len(failures) + 1)
        /\ GotText => (caught = NoError /\ logged = NoError)

C16_Witness ==
    /\ Done /\ fn = "supervisorAgent"
    /\ state.query = "Severe chest pain"
    /\ response = BlockedResponse
    /\ invocations = 1 /\ failures = << >>
    /\ logged = ReadError
    /\ result = "emergency"

\* C17: no step of a call in progress changes the ChatState it was given,
\* whether the call ends on the success or on the failure path, and no
\* step writes the one thing calls share, the module's client.
C17_StateUntouched ==
    [][ /\ pc \in { "awaiting", "backoff" } => state' = state
        /\ model' = model ]_vars

C17_Witness ==
    /\ AllAttemptsFailed /\ fn = "supervisorAgent"
    /\ state = [ query |-> "Explain my previous STROKE",
                 chat_history |-> [ i \in 1..MaxHistory |-> i ],
                 answer |-> "Rest and drink fluids." ]
    /\ model = GenerativeModel

\* C18: when every request settles and every timer fires, a call that has
\* started eventually returns.
C18_EveryCallReturns == (pc \in { "awaiting", "backoff" }) ~> (pc = "done")

C18_Witness ==
    /\ AllAttemptsFailed /\ fn = "supervisorAgent"
    /\ invocations = 3 /\ delays = << 1000, 2000 >>
    /\ outcome = "returned"

\* Reference inputs a finished call is compared with: calls that each agree
\* with the reference agree with one another.
TwinQueries == { "", "Explain my previous STROKE" }

\* C19: with every attempt failing, the same classifier on any state with
\* the same query (other chat_history, other answer) returns the same
\* value; with a response text read, supervisorAgent and extractSeverity
\* return the same value on a state with another query.
C19_ResultDependsOnQueryOrTextAlone ==
    /\ (AllAttemptsFailed /\ fn \in Classifiers) =>
          \A h \in Histories, a \in Answers :
              Continue(fn, [ query |-> state.query, chat_history |-> h, answer |-> a ],
                       Rejected(caught)).value = result
    /\ (GotText /\ fn \in { "supervisorAgent", "extractSeverity" }) =>
          \A q \in TwinQueries :
              Continue(fn, [ state EXCEPT !.query = q ],
                       Resolved(response)).value = result

C19_Witness ==
    /\ AllAttemptsFailed /\ fn = "supervisorAgent"
    /\ state.query = "Can I take ibuprofen?"
    /\ Len(state.chat_history) > 0
    /\ result = "clinical"

====
